---- MODULE Spec2Model ----
(***************************************************************************)
(* RDF Sync Validator (lindasnext-migration-helper).                       *)
(*                                                                         *)
(* The tool compares the data of two SPARQL stores (Stardog, GraphDB).     *)
(* Three state machines are modelled over one set of variables:            *)
(*   SpecGraph  the graph engine: canonical form, equality, diff           *)
(*   Spec       one run of a dashboard page: a per-entity run              *)
(*              (run_validation) or a whole-graph run (full_run)           *)
(*   SpecLit    the two literal-normalisation pipelines of the fetchers    *)
(* A specification leaves the variables of the other two at rest.          *)
(***************************************************************************)
EXTENDS Integers, Sequences, FiniteSets, TLC

\* ------------------------------------------------------------------ bounds
\* Largest number of triples of an input graph of SpecGraph.
MaxTriples == 2
\* Entity IRIs 1..MaxIri may be in either store.
MaxIri == 3
\* Largest value of the "Max Triple-Checks" input that is tried.
MaxSample == 2
\* Largest number of code points of a literal's lexical form in SpecLit.
MaxLen == 2

\* ------------------------------------------------------- program constants
\* c1.write(list(only_st)[:100])
DisplayCap == 100
\* st.number_input("Max Triple-Checks", min_value=1, ...)
MinSample == 1

\* ------------------------------------------------------------------- terms
\* A term is an IRI, a blank node or a literal (rdflib URIRef, BNode,
\* Literal).  Every term carries the same fields so that any two compare.
NoLang == ""
NoDatatype == ""

IRI(n) == [kind |-> "iri", id |-> n, lex |-> <<>>, lang |-> NoLang, dt |-> NoDatatype]
BNode(n) == [kind |-> "bnode", id |-> n, lex |-> <<>>, lang |-> NoLang, dt |-> NoDatatype]
Literal(lex, lang, dt) == [kind |-> "lit", id |-> 0, lex |-> lex, lang |-> lang, dt |-> dt]

IsBNode(t) == t.kind = "bnode"
IsLiteral(t) == t.kind = "lit"

\* A graph is a set of triples <<s, p, o>>: adding a triple twice keeps one.
Subj(t) == t[1]
Pred(t) == t[2]
Obj(t) == t[3]

BNodesOf(g) == {Subj(t) : t \in {u \in g : IsBNode(Subj(u))}}
                   \cup {Obj(t) : t \in {u \in g : IsBNode(Obj(u))}}

\* The graph with every blank node b replaced by f[b].
RelabelTerm(x, f) == IF IsBNode(x) THEN f[x] ELSE x
Relabel(g, f) == {<<RelabelTerm(Subj(t), f), Pred(t), RelabelTerm(Obj(t), f)>> : t \in g}

Bijections(S, T) == {f \in [S -> T] : \A x, y \in S : f[x] = f[y] => x = y}

\* --------------------------------------------------- a total order on terms
CodePointCode(c) == CASE c = "e" -> 1 [] c = "acute" -> 2 [] OTHER -> 3

RECURSIVE LexCode(_)
LexCode(s) == IF s = <<>> THEN 0 ELSE CodePointCode(Head(s)) + 4 * LexCode(Tail(s))

LangCode(l) == IF l = NoLang THEN 0 ELSE 1
DatatypeCode(d) == IF d = NoDatatype THEN 0 ELSE 1

TermKey(t) ==
    CASE t.kind = "iri" -> <<0, t.id, 0, 0>>
      [] t.kind = "bnode" -> <<1, t.id, 0, 0>>
      [] OTHER -> <<2, LexCode(t.lex), LangCode(t.lang), DatatypeCode(t.dt)>>

RECURSIVE SeqLess(_, _)
SeqLess(a, b) ==
    IF a = <<>> \/ b = <<>> THEN a = <<>> /\ b # <<>>
    ELSE Head(a) < Head(b) \/ (Head(a) = Head(b) /\ SeqLess(Tail(a), Tail(b)))

TripleKey(t) == TermKey(Subj(t)) \o TermKey(Pred(t)) \o TermKey(Obj(t))
TripleLess(t, u) == SeqLess(TripleKey(t), TripleKey(u))

\* g precedes h when the least triple in which they differ is one of g.
GraphLess(g, h) ==
    LET d == (g \ h) \cup (h \ g)
    IN  d # {} /\ (CHOOSE m \in d : \A u \in d : m = u \/ TripleLess(m, u)) \in g

\* ------------------------------------------------------------ canonical form
\* Canonical labels live apart from the fetch-local ones (rdflib: "cb...").
CanonLabel(k) == BNode(0 - k)
CanonLabels(n) == {CanonLabel(k) : k \in 1..n}

\* A relabelling whose labels depend on the labels it is given: a fresh
\* label per input label, not a label determined by the structure.
FreshLabelled(g) ==
    Relabel(g, [b \in BNodesOf(g) |-> BNode((2 * b.id) - 100)])

\* rdflib.compare.to_canonical_graph: the blank nodes are replaced by labels
\* determined by the structure of the graph alone.  Of the relabellings onto
\* the canonical labels the least one is the canonical form, the
\* deterministic tie-break between interchangeable blank nodes.
Canonical(g) ==
    LET cands == {Relabel(g, f) :
                     f \in Bijections(BNodesOf(g), CanonLabels(Cardinality(BNodesOf(g))))}
    IN  CHOOSE c \in cands : \A d \in cands : c = d \/ GraphLess(c, d)

\* IsomorphicGraph.internal_hash: a digest of the canonical triples, taken
\* to be free of collisions.
InternalHash(g) == Canonical(g)

\* A comparison of the two graphs as fetched, labels and all.
EqualAsFetched(g, h) == g = h

\* A comparison of the numbers of triples alone.
EqualCounts(g, h) == Cardinality(g) = Cardinality(h)

\* to_isomorphic(g1) == to_isomorphic(g2)   (IsomorphicGraph.__eq__)
IsoEqual(g, h) ==
    /\ Cardinality(g) = Cardinality(h)
    /\ InternalHash(g) = InternalHash(h)

\* A diff of the graphs as fetched, labels and all.
DiffAsFetched(g, h) ==
    [in_both |-> g \cap h, in_first |-> g \ h, in_second |-> h \ g]

\* rdflib.compare.graph_diff(g1, g2)
GraphDiff(g, h) ==
    LET cg == Canonical(g)
        ch == Canonical(h)
    IN  [in_both |-> cg \cap ch, in_first |-> cg \ ch, in_second |-> ch \ cg]

\* Two graphs are isomorphic when a bijection of their blank nodes maps one
\* onto the other (the definition, independent of any canonical form).
Isomorphic(g, h) ==
    /\ Cardinality(BNodesOf(g)) = Cardinality(BNodesOf(h))
    /\ \E f \in Bijections(BNodesOf(g), BNodesOf(h)) : Relabel(g, f) = h

\* -------------------------------------------------- the inputs of SpecGraph
EntityA == IRI(1)
PredP == IRI(201)
PredQ == IRI(202)
ObjC == IRI(203)
FetchLabels == {BNode(1), BNode(2)}

GraphTriples ==
    {<<s, PredP, o>> : s \in {EntityA} \cup FetchLabels, o \in FetchLabels \cup {ObjC}}

RECURSIVE SubsetsUpTo(_, _)
SubsetsUpTo(S, n) ==
    IF n = 0 THEN {{}}
    ELSE LET smaller == SubsetsUpTo(S, n - 1)
         IN  smaller \cup {g \cup {t} : g \in smaller, t \in S}

InputGraphs == SubsetsUpTo(GraphTriples, MaxTriples)

VARIABLES gA, gB, gpc, isoEq, diffOut, canonA, canonTwice

\* One run of a page.
VARIABLES
    variant,         \* "validator" (src/pages/validator.py) or "app" (src/app.py)
    excluded_uris,   \* the sidebar's excluded predicates
    mode,            \* the button clicked: mode_name, or "Full"
    sample_size,     \* the sidebar's "Max Triple-Checks"
    pc,              \* where the run stands
    st_items,        \* discover_items(st_endpoint, ...)
    gdb_items,       \* discover_items(gdb_endpoint, ...)
    shared,
    only_st,
    only_gdb,
    finding,         \* what the population comparison displayed
    items_to_check,
    idx,             \* position in items_to_check of the entity in hand
    g1,
    g2,
    results,
    all_st_graph,
    all_gdb_graph,
    status,          \* the st.status widget: label and state
    report,          \* the table and the downloads, once displayed
    outcome,         \* how the run ended
    failed,          \* the call that raised, shown by st.error
    calls,           \* the requests issued, in order, and what they answered
    verdict,         \* whole-graph mode: what was announced
    shownDiff        \* whole-graph mode: the two difference listings

gvars == <<gA, gB, gpc, isoEq, diffOut, canonA, canonTwice>>
rvars == <<variant, excluded_uris, mode, sample_size, pc, st_items, gdb_items, shared, only_st,
           only_gdb, finding, items_to_check, idx, g1, g2, results, all_st_graph,
           all_gdb_graph, status, report, outcome, failed, calls, verdict, shownDiff>>

\* The literal one triple holds in each store, and what the fetchers make
\* of it.
VARIABLES
    lex1, lex2,      \* the characters of the term as stored (Stardog, GraphDB)
    tag1, tag2,      \* language tag and datatype as stored
    esc1, esc2,      \* whether the store's serialiser writes non-ASCII as \uXXXX
    lpage,           \* the page or script that runs
    lpc,
    lg1, lg2,        \* g1, g2: the graph built from each answer
    out1, out2,      \* the term in the graph built from each answer
    lmatch           \* to_isomorphic(g1) == to_isomorphic(g2)

lvars == <<lex1, lex2, tag1, tag2, esc1, esc2, lpage, lpc, lg1, lg2, out1, out2,
           lmatch>>

\* One run of the transpiler page (src/pages/transpiler.py).
VARIABLES
    tpc,
    api_config,      \* the chart configuration the API holds
    tops,            \* the dicts at the top level of a configuration, by reference
    nested,          \* the dicts held under "dataSource", by reference
    base_config,     \* the reference extract_config returned, or "None"
    gen_calls,       \* the calls of generate_html: what they found and returned
    raw_shown        \* what "View Raw Configuration" displays

tvars == <<tpc, api_config, tops, nested, base_config, gen_calls, raw_shown>>

\* One call of a fetcher of the validator page, from the parsed answer on.
VARIABLES
    npc,
    parsed,          \* the graph g.parse built from the answer
    ngraph,          \* the graph normalize_graph_literals works on
    todo,            \* the triples the loop has yet to visit
    handed           \* the graph given to to_isomorphic

nvars == <<npc, parsed, ngraph, todo, handed>>
vars == <<gvars, rvars, lvars, tvars, nvars>>

NoDiff == [in_both |-> {}, in_first |-> {}, in_second |-> {}]

GraphInputs ==
    /\ gA \in InputGraphs
    /\ gB \in InputGraphs
    /\ gpc = "fetched"
    /\ isoEq = FALSE
    /\ diffOut = NoDiff
    /\ canonA = {}
    /\ canonTwice = {}

GraphAtRest ==
    /\ gA = {}
    /\ gB = {}
    /\ gpc = "unused"
    /\ isoEq = FALSE
    /\ diffOut = NoDiff
    /\ canonA = {}
    /\ canonTwice = {}

\* if to_isomorphic(g1) == to_isomorphic(g2)
GCompare ==
    /\ gpc = "fetched"
    /\ isoEq' = IsoEqual(gA, gB)
    /\ gpc' = "compared"
    /\ UNCHANGED <<gA, gB, diffOut, canonA, canonTwice, rvars, lvars, tvars, nvars>>

\* else: in_both, only_in_first, only_in_second = graph_diff(g1, g2)
GDiff ==
    /\ gpc = "compared"
    /\ ~isoEq
    /\ diffOut' = GraphDiff(gA, gB)
    /\ gpc' = "diffed"
    /\ UNCHANGED <<gA, gB, isoEq, canonA, canonTwice, rvars, lvars, tvars, nvars>>

\* The canonical graph of the first input, and the canonical graph of that.
GCanonicalize ==
    /\ gpc = "diffed"
    /\ canonA' = Canonical(gA)
    /\ gpc' = "canonical"
    /\ UNCHANGED <<gA, gB, isoEq, diffOut, canonTwice, rvars, lvars, tvars, nvars>>

GRecanonicalize ==
    /\ gpc = "canonical"
    /\ canonTwice' = Canonical(canonA)
    /\ gpc' = "recanonical"
    /\ UNCHANGED <<gA, gB, isoEq, diffOut, canonA, rvars, lvars, tvars, nvars>>

\* ================================================= literal normalisation
\* Code points: "e" (U+0065), "acute" (the combining U+0301) and "eacute"
\* (the precomposed U+00E9, canonically equivalent to "e" then "acute").
CodePoints == {"e", "acute", "eacute"}
IsAscii(c) == c = "e"

\* Canonical decomposition, then canonical composition.
RECURSIVE Decompose(_)
Decompose(s) ==
    IF s = <<>> THEN <<>>
    ELSE (IF Head(s) = "eacute" THEN <<"e", "acute">> ELSE <<Head(s)>>)
             \o Decompose(Tail(s))

RECURSIVE Compose(_)
Compose(s) ==
    IF s = <<>> THEN <<>>
    ELSE IF Len(s) >= 2 /\ s[1] = "e" /\ s[2] = "acute"
    THEN <<"eacute">> \o Compose(Tail(Tail(s)))
    ELSE <<Head(s)>> \o Compose(Tail(s))

\* unicodedata.normalize('NFC', text) on a string of code points
NFC(s) == Compose(Decompose(s))

\* The characters of a literal in a store's answer: a code point written as
\* itself, or written as the ASCII escape \uXXXX.
WireChar(c, escaped) == [cp |-> c, esc |-> escaped]
Serialize(lex, escapes) ==
    [k \in 1..Len(lex) |-> WireChar(lex[k], escapes /\ ~IsAscii(lex[k]))]

\* unicodedata.normalize('NFC', response.text) on the answer as text: an
\* escape is a run of ASCII characters, which NFC leaves as it is and across
\* which nothing composes.
RECURSIVE DecomposeWire(_)
DecomposeWire(w) ==
    IF w = <<>> THEN <<>>
    ELSE (IF ~Head(w).esc /\ Head(w).cp = "eacute"
          THEN <<WireChar("e", FALSE), WireChar("acute", FALSE)>>
          ELSE <<Head(w)>>)
             \o DecomposeWire(Tail(w))

RECURSIVE ComposeWire(_)
ComposeWire(w) ==
    IF w = <<>> THEN <<>>
    ELSE IF Len(w) >= 2 /\ w[1] = WireChar("e", FALSE) /\ w[2] = WireChar("acute", FALSE)
    THEN <<WireChar("eacute", FALSE)>> \o ComposeWire(Tail(Tail(w)))
    ELSE <<Head(w)>> \o ComposeWire(Tail(w))

NFCText(w) == ComposeWire(DecomposeWire(w))

\* g.parse(data=..., format="nt" / "turtle"): the escapes are resolved.
ParseLiteral(w, tag) == Literal([k \in 1..Len(w) |-> w[k].cp], tag.lang, tag.dt)

\* normalize_graph_literals, one object: a literal whose string is not in
\* NFC is replaced by Literal(norm_val, lang=o.language, datatype=o.datatype).
NormalizeLiteral(o) ==
    IF IsLiteral(o) /\ o.lex # NFC(o.lex)
    THEN Literal(NFC(o.lex), o.lang, o.dt)
    ELSE o

\* A loop body that adds the normalised triple and leaves the old one.
NormalizeVisitKeepsOld(graph, t) ==
    graph \cup {<<Subj(t), Pred(t), NormalizeLiteral(Obj(t))>>}

\* One pass of the loop body of normalize_graph_literals for the triple t:
\*   if isinstance(o, Literal) and str(o) != norm_val:
\*       graph.remove((s, p, o)); graph.add((s, p, Literal(norm_val, ...)))
NormalizeVisit(graph, t) ==
    IF NormalizeLiteral(Obj(t)) # Obj(t)
    THEN (graph \ {t}) \cup {<<Subj(t), Pred(t), NormalizeLiteral(Obj(t))>>}
    ELSE graph

\* for s, p, o in graph: the loop runs over the triples the graph held when
\* it started.  Graph() is built on rdflib's default store (Memory), whose
\* triples((None, None, None)) yields from a copy of the graph's triple set,
\* so the remove and the add inside the loop neither raise nor change what
\* is visited.
RECURSIVE NormalizeLoop(_, _)
NormalizeLoop(graph, rest) ==
    IF rest = {} THEN graph
    ELSE LET t == CHOOSE x \in rest : TRUE
         IN  NormalizeLoop(NormalizeVisit(graph, t), rest \ {t})

\* normalize_graph_literals(graph)
NormalizeGraphLiterals(g) == NormalizeLoop(g, g)

\* A term in the text of an answer: what kind of term it is and the
\* characters the store wrote for it.
SerializeTerm(x, escapes) == [term |-> x, chars |-> Serialize(x.lex, escapes)]

\* response.text for the triples the store sends.
ResponseText(sent, escapes) ==
    {<<SerializeTerm(Subj(t), escapes), SerializeTerm(Pred(t), escapes),
       SerializeTerm(Obj(t), escapes)>> : t \in sent}

\* unicodedata.normalize('NFC', response.text): every character of the
\* answer that is not part of an escape, in whatever term it stands.
NormalizeText(text) ==
    LET norm(w) == [w EXCEPT !.chars = NFCText(w.chars)]
    IN  {<<norm(t[1]), norm(t[2]), norm(t[3])>> : t \in text}

\* g.parse(data=text, format=...): the escapes of every term are resolved.
ParseTerm(w) == [w.term EXCEPT !.lex = [k \in 1..Len(w.chars) |-> w.chars[k].cp]]
ParseText(text) == {<<ParseTerm(t[1]), ParseTerm(t[2]), ParseTerm(t[3])>> : t \in text}

\* The graph a fetcher returns for the triples the store sends, written with
\* or without escapes: the validator page parses and then normalises the
\* literals, the older page normalises the text and then parses.
FetchedGraph(v, sent, escapes) ==
    IF v = "validator"
    THEN NormalizeGraphLiterals(ParseText(ResponseText(sent, escapes)))
    ELSE ParseText(NormalizeText(ResponseText(sent, escapes)))


\* ================================================================ one run
\* ---------------------------------------------------------------- inputs
SmallIris == 1..MaxIri
\* A block of entities that only Stardog holds, sized so that the entities
\* found in Stardog alone can outnumber the display cap by one.
Bulk == (MaxIri + 1)..(DisplayCap + 1)
StPopulations == (SUBSET SmallIris) \cup {S \cup Bulk : S \in SUBSET SmallIris}
GdbPopulations == SUBSET SmallIris
SampleSizes == MinSample..MaxSample
Variants == {"validator", "app"}
\* excluded_uris: the predicates of the labels selected under "3. Filters".
FilterSets == SUBSET {PredQ}
PerEntityModes == {"Metadata", "Observations", "Constraints"}
Modes == PerEntityModes \cup {"Full"}

\* Blank-node labels are local to one parse: no two fetches share one.
StLabel(iri) == BNode((2 * iri) - 1)
GdbLabel(iri) == BNode(2 * iri)

\* One word, written decomposed in one store and precomposed in the other.
CafeDecomposed == Literal(<<"e", "acute">>, "en", NoDatatype)
CafeComposed == Literal(<<"eacute">>, "en", NoDatatype)

\* What a store may hold for the CONSTRUCT query for one entity.
StFetchGraphs(iri) ==
    { {<<IRI(iri), PredP, StLabel(iri)>>},
      {<<IRI(iri), PredP, StLabel(iri)>>, <<IRI(iri), PredQ, CafeDecomposed>>} }
GdbFetchGraphs(iri) ==
    { {<<IRI(iri), PredP, GdbLabel(iri)>>},
      {<<IRI(iri), PredP, GdbLabel(iri)>>, <<IRI(iri), PredQ, CafeComposed>>} }

\* What a store may hold for the whole-graph CONSTRUCT query.
StFullGraphs ==
    { {<<EntityA, PredP, StLabel(1)>>, <<StLabel(1), PredP, ObjC>>},
      {<<EntityA, PredP, StLabel(1)>>},
      {<<EntityA, PredP, StLabel(1)>>, <<StLabel(1), PredP, ObjC>>,
       <<EntityA, PredQ, ObjC>>} }
GdbFullGraphs ==
    { {<<EntityA, PredP, GdbLabel(1)>>, <<GdbLabel(1), PredP, ObjC>>},
      {<<EntityA, PredP, GdbLabel(1)>>, <<GdbLabel(1), PredP, GdbLabel(1)>>} }

\* --------------------------------------------------------------- helpers
Min(S) == CHOOSE m \in S : \A x \in S : m <= x

\* sorted(list(shared))
RECURSIVE SortedSeq(_)
SortedSeq(S) == IF S = {} THEN <<>> ELSE <<Min(S)>> \o SortedSeq(S \ {Min(S)})

Range(q) == {q[k] : k \in 1..Len(q)}

\* random.sample(population, k): k elements, no element twice, in any order.
RandomSample(population, k) ==
    {q \in [1..k -> Range(population)] : \A a, b \in 1..k : q[a] = q[b] => a = b}

\* run_validation(..., use_sampling=...) as the three triggers call it; the
\* older page has no sampling.
UseSampling(v, m) == v = "validator" /\ m = "Observations"

\* Sampling applied whatever the mode.
SampleAlways(v, m, sh, k) ==
    IF Cardinality(sh) > k THEN RandomSample(SortedSeq(sh), k) ELSE {SortedSeq(sh)}

\* Step 3: the values items_to_check may take.
SampleItems(v, m, sh, k) ==
    IF UseSampling(v, m) /\ Cardinality(sh) > k
    THEN RandomSample(SortedSeq(sh), k)
    ELSE {SortedSeq(sh)}

\* The sets left of S when d of its elements are dropped.
RECURSIVE Dropped(_, _)
Dropped(S, d) ==
    IF d = 0 THEN {S} ELSE UNION {Dropped(S \ {x}, d - 1) : x \in S}

\* list(s)[:100]: the set is listed in no particular order, so any
\* DisplayCap of its elements may be the ones shown.
Listed(S) ==
    IF Cardinality(S) <= DisplayCap THEN {S}
    ELSE Dropped(S, Cardinality(S) - DisplayCap)

\* Step 2: shared, only_st, only_gdb.
SharedOf(st, gdb) == st \cap gdb
OnlyStOf(st, gdb) == st \ gdb
OnlyGdbOf(st, gdb) == gdb \ st

\* Step 2: what is displayed: the warning with the two counts and the two
\* listings, or the success line with the size of the shared set.  The older
\* page shows both populations in full and no difference.
Findings(v, st, gdb) ==
    IF v = "app"
    THEN {[kind |-> "debug", n_st |-> Cardinality(st), n_gdb |-> Cardinality(gdb),
           listed_st |-> st, listed_gdb |-> gdb]}
    ELSE IF OnlyStOf(st, gdb) # {} \/ OnlyGdbOf(st, gdb) # {}
    THEN {[kind |-> "mismatch",
           n_st |-> Cardinality(OnlyStOf(st, gdb)),
           n_gdb |-> Cardinality(OnlyGdbOf(st, gdb)),
           listed_st |-> ls, listed_gdb |-> lg] :
             ls \in Listed(OnlyStOf(st, gdb)), lg \in Listed(OnlyGdbOf(st, gdb))}
    ELSE {[kind |-> "match", n_st |-> Cardinality(SharedOf(st, gdb)),
           n_gdb |-> Cardinality(SharedOf(st, gdb)),
           listed_st |-> {}, listed_gdb |-> {}]}

NoFinding == [kind |-> "none", n_st |-> 0, n_gdb |-> 0, listed_st |-> {}, listed_gdb |-> {}]
NoStatus == [label |-> "none", state |-> "none", at |-> 0]
NoReport == [shown |-> FALSE, table |-> <<>>, st_nt |-> {}, gdb_nt |-> {}]
NoShownDiff == [shown |-> FALSE, only_st |-> {}, only_gdb |-> {}]

\* A request: the operation, the store, the entity, the excluded predicates
\* written into the query, the triples the store holds for the query's
\* pattern and the graph built from the answer.
Request(op, store, iri, f, src, g) ==
    [op |-> op, store |-> store, iri |-> iri, filters |-> f, source |-> src,
     answer |-> g]
Call(op, store, iri) == Request(op, store, iri, {}, {}, {})

\* FILTER (?p NOT IN (...)): the store leaves out the triples whose predicate
\* is excluded; "if filter_uris:" writes no clause for an empty list.
Retained(src, f) == {t \in src : Pred(t) \notin f}

\* The excluded predicates a per-entity fetch passes on.  The validator page:
\* "if mode_name == 'Metadata' and filters" hands filters to
\* fetch_cube_metadata, every other fetch is called without.  The fetchers of
\* the older page take no filter.
EntityFilters(v, m, f) == IF v = "validator" /\ m = "Metadata" THEN f ELSE {}

\* The label of the abort: "No shared IRIs found. Aborting deep-check." on
\* the validator page, "No matches found." on the older page.
AbortLabel(v) == IF v = "validator" THEN "no shared IRIs" ELSE "no matches"

\* ------------------------------------------------------------------ state
RunInit ==
    /\ variant \in Variants
    /\ excluded_uris \in FilterSets
    /\ sample_size \in SampleSizes
    /\ mode = "none"
    /\ pc = "idle"
    /\ st_items = {}
    /\ gdb_items = {}
    /\ shared = {}
    /\ only_st = {}
    /\ only_gdb = {}
    /\ finding = NoFinding
    /\ items_to_check = <<>>
    /\ idx = 0
    /\ g1 = {}
    /\ g2 = {}
    /\ results = <<>>
    /\ all_st_graph = {}
    /\ all_gdb_graph = {}
    /\ status = NoStatus
    /\ report = NoReport
    /\ outcome = "none"
    /\ failed = "none"
    /\ calls = <<>>
    /\ verdict = "none"
    /\ shownDiff = NoShownDiff

RunAtRest ==
    /\ variant = "none"
    /\ excluded_uris = {}
    /\ sample_size = 0
    /\ mode = "none"
    /\ pc = "unused"
    /\ st_items = {}
    /\ gdb_items = {}
    /\ shared = {}
    /\ only_st = {}
    /\ only_gdb = {}
    /\ finding = NoFinding
    /\ items_to_check = <<>>
    /\ idx = 0
    /\ g1 = {}
    /\ g2 = {}
    /\ results = <<>>
    /\ all_st_graph = {}
    /\ all_gdb_graph = {}
    /\ status = NoStatus
    /\ report = NoReport
    /\ outcome = "none"
    /\ failed = "none"
    /\ calls = <<>>
    /\ verdict = "none"
    /\ shownDiff = NoShownDiff

\* ---------------------------------------------------------------- actions
\* A button is clicked: if meta_run / obs_run / const_run / full_run.
Click(m) ==
    /\ pc = "idle"
    /\ mode' = m
    /\ pc' = IF m = "Full" THEN "full_fetch_st" ELSE "discover_st"
    /\ status' = IF m = "Full" THEN status
                 ELSE [label |-> "validating", state |-> "running", at |-> 0]
    /\ UNCHANGED <<variant, excluded_uris, sample_size, st_items, gdb_items, shared, only_st,
                   only_gdb, finding, items_to_check, idx, g1, g2, results,
                   all_st_graph, all_gdb_graph, report, outcome, failed, calls,
                   verdict, shownDiff>>

\* A failed request that is issued again.
RaiseAndRetry(where, st) ==
    /\ pc' = pc
    /\ outcome' = outcome
    /\ failed' = where
    /\ status' = st

\* except Exception as e: st.error(f"Error: {e}").  The exception leaves the
\* "with st.status" block, which puts the widget in its error state.
Raise(where, st) ==
    /\ pc' = "done"
    /\ outcome' = "error"
    /\ failed' = where
    /\ status' = IF mode = "Full" THEN st ELSE [st EXCEPT !.state = "error"]

\* A run that compares the populations after the first discovery alone.
DiscoverStThenCompare ==
    /\ pc = "discover_st"
    /\ calls' = Append(calls, Call("discover", "st", 0))
    /\ st_items' \in StPopulations
    /\ pc' = "compare_populations"
    /\ UNCHANGED <<variant, excluded_uris, mode, sample_size, gdb_items, shared,
                   only_st, only_gdb, finding, items_to_check, idx, g1, g2, results,
                   all_st_graph, all_gdb_graph, status, report, outcome, failed,
                   verdict, shownDiff>>

\* st_items = discover_items(st_endpoint, st_graph_iri, rdf_type)
DiscoverSt ==
    /\ pc = "discover_st"
    /\ calls' = Append(calls, Call("discover", "st", 0))
    /\ st_items' \in StPopulations
    /\ pc' = "discover_gdb"
    /\ UNCHANGED <<variant, excluded_uris, mode, sample_size, gdb_items, shared, only_st,
                   only_gdb, finding, items_to_check, idx, g1, g2, results,
                   all_st_graph, all_gdb_graph, status, report, outcome, failed,
                   verdict, shownDiff>>

\* The request fails: response.raise_for_status(), a timeout, a bad body.
DiscoverStFails ==
    /\ pc = "discover_st"
    /\ calls' = Append(calls, Call("discover", "st", 0))
    /\ Raise("discover_st", status)
    /\ UNCHANGED <<variant, excluded_uris, mode, sample_size, st_items, gdb_items, shared,
                   only_st, only_gdb, finding, items_to_check, idx, g1, g2,
                   results, all_st_graph, all_gdb_graph, report, verdict,
                   shownDiff>>

\* gdb_items = discover_items(gdb_endpoint, gdb_graph_iri, rdf_type)
DiscoverGdb ==
    /\ pc = "discover_gdb"
    /\ calls' = Append(calls, Call("discover", "gdb", 0))
    /\ gdb_items' \in GdbPopulations
    /\ pc' = "compare_populations"
    /\ UNCHANGED <<variant, excluded_uris, mode, sample_size, st_items, shared, only_st,
                   only_gdb, finding, items_to_check, idx, g1, g2, results,
                   all_st_graph, all_gdb_graph, status, report, outcome, failed,
                   verdict, shownDiff>>

\* A failed discovery taken for an empty population.
DiscoverGdbFailsQuietly ==
    /\ pc = "discover_gdb"
    /\ calls' = Append(calls, Call("discover", "gdb", 0))
    /\ gdb_items' = {}
    /\ failed' = "discover_gdb"
    /\ pc' = "compare_populations"
    /\ UNCHANGED <<variant, excluded_uris, mode, sample_size, st_items, shared, only_st,
                   only_gdb, finding, items_to_check, idx, g1, g2, results,
                   all_st_graph, all_gdb_graph, status, report, outcome,
                   verdict, shownDiff>>

DiscoverGdbFails ==
    /\ pc = "discover_gdb"
    /\ calls' = Append(calls, Call("discover", "gdb", 0))
    /\ Raise("discover_gdb", status)
    /\ UNCHANGED <<variant, excluded_uris, mode, sample_size, st_items, gdb_items, shared,
                   only_st, only_gdb, finding, items_to_check, idx, g1, g2,
                   results, all_st_graph, all_gdb_graph, report, verdict,
                   shownDiff>>

\* An abort that also takes a single shared entity for none.
AbortsOnFew(sh) == Cardinality(sh) <= 1

\* if not shared: status.update(label=..., state="error"); return
AbortsOnEmpty(sh) == sh = {}

\* Step 2: compare the populations, display the finding, and stop the run
\* when no entity is shared.
ComparePopulations ==
    /\ pc = "compare_populations"
    /\ shared' = SharedOf(st_items, gdb_items)
    /\ only_st' = IF variant = "validator" THEN OnlyStOf(st_items, gdb_items) ELSE {}
    /\ only_gdb' = IF variant = "validator" THEN OnlyGdbOf(st_items, gdb_items) ELSE {}
    /\ finding' \in Findings(variant, st_items, gdb_items)
    /\ IF AbortsOnEmpty(shared')
       THEN /\ status' = [label |-> AbortLabel(variant), state |-> "error", at |-> 0]
            /\ pc' = "done"
            /\ outcome' = "aborted"
       ELSE /\ pc' = "sampling"
            /\ UNCHANGED <<status, outcome>>
    /\ UNCHANGED <<variant, excluded_uris, mode, sample_size, st_items, gdb_items,
                   items_to_check, idx, g1, g2, results, all_st_graph,
                   all_gdb_graph, report, failed, calls, verdict, shownDiff>>

\* Step 3, and the first lines of step 4: results = [], the two accumulators.
Sample ==
    /\ pc = "sampling"
    /\ items_to_check' \in SampleItems(variant, mode, shared, sample_size)
    /\ results' = <<>>
    /\ all_st_graph' = {}
    /\ all_gdb_graph' = {}
    /\ idx' = 1
    /\ pc' = "fetch_st"
    /\ UNCHANGED <<variant, excluded_uris, mode, sample_size, st_items, gdb_items, shared,
                   only_st, only_gdb, finding, g1, g2, status, report, outcome,
                   failed, calls, verdict, shownDiff>>

\* status.update(label=f"Checking Triples {i + 1}/{len(items_to_check)}: ...")
Checking(k) == [label |-> "checking", state |-> "running", at |-> k]

\* g1 = fetch_func(st_endpoint, st_graph_iri, iri)
FetchSt ==
    /\ pc = "fetch_st"
    /\ status' = Checking(idx)
    /\ \E src \in StFetchGraphs(items_to_check[idx]), esc \in BOOLEAN :
          LET f == EntityFilters(variant, mode, excluded_uris)
          IN  /\ g1' = FetchedGraph(variant, Retained(src, f), esc)
              /\ calls' = Append(calls, Request("fetch", "st", items_to_check[idx],
                                                f, src, g1'))
    /\ pc' = "fetch_gdb"
    /\ UNCHANGED <<variant, excluded_uris, mode, sample_size, st_items, gdb_items, shared,
                   only_st, only_gdb, finding, items_to_check, idx, g2, results,
                   all_st_graph, all_gdb_graph, report, outcome, failed, verdict,
                   shownDiff>>

FetchStFails ==
    /\ pc = "fetch_st"
    /\ calls' = Append(calls, Request("fetch", "st", items_to_check[idx],
                                      EntityFilters(variant, mode, excluded_uris),
                                      {}, {}))
    /\ Raise("fetch_st", Checking(idx))
    /\ UNCHANGED <<variant, excluded_uris, mode, sample_size, st_items, gdb_items, shared,
                   only_st, only_gdb, finding, items_to_check, idx, g1, g2,
                   results, all_st_graph, all_gdb_graph, report, verdict,
                   shownDiff>>

\* g2 = fetch_func(gdb_endpoint, gdb_graph_iri, iri)
FetchGdb ==
    /\ pc = "fetch_gdb"
    /\ \E src \in GdbFetchGraphs(items_to_check[idx]), esc \in BOOLEAN :
          LET f == EntityFilters(variant, mode, excluded_uris)
          IN  /\ g2' = FetchedGraph(variant, Retained(src, f), esc)
              /\ calls' = Append(calls, Request("fetch", "gdb", items_to_check[idx],
                                                f, src, g2'))
    /\ pc' = "compare"
    /\ UNCHANGED <<variant, excluded_uris, mode, sample_size, st_items, gdb_items, shared,
                   only_st, only_gdb, finding, items_to_check, idx, g1, results,
                   all_st_graph, all_gdb_graph, status, report, outcome, failed,
                   verdict, shownDiff>>

FetchGdbFails ==
    /\ pc = "fetch_gdb"
    /\ calls' = Append(calls, Request("fetch", "gdb", items_to_check[idx],
                                      EntityFilters(variant, mode, excluded_uris),
                                      {}, {}))
    /\ Raise("fetch_gdb", status)
    /\ UNCHANGED <<variant, excluded_uris, mode, sample_size, st_items, gdb_items, shared,
                   only_st, only_gdb, finding, items_to_check, idx, g1, g2,
                   results, all_st_graph, all_gdb_graph, report, verdict,
                   shownDiff>>

\* A loop that leaves at the first entity that does not match.
StopAtMismatch(k, n, match) == IF k = n \/ ~match THEN "report" ELSE "fetch_st"

\* for i, iri in enumerate(items_to_check): the loop goes on to the next
\* entity whatever the comparison found, and ends after the last one.
AfterEntity(k, n, match) == IF k = n THEN "report" ELSE "fetch_st"

\* An accumulator that keeps the graph of the last entity alone.
AccumulateLast(acc, g) == g

\* all_st_graph += g1 (Graph.__iadd__): the triples of g1 are added to the
\* accumulator.
Accumulate(acc, g) == acc \cup g

\* all_st_graph += g1; all_gdb_graph += g2; match = ...; results.append(...)
\* The older page keeps no accumulators.
CompareEntity ==
    /\ pc = "compare"
    /\ all_st_graph' = IF variant = "validator" THEN Accumulate(all_st_graph, g1)
                        ELSE all_st_graph
    /\ all_gdb_graph' = IF variant = "validator" THEN Accumulate(all_gdb_graph, g2)
                         ELSE all_gdb_graph
    /\ results' = Append(results, [IRI |-> items_to_check[idx],
                                   Match |-> IsoEqual(g1, g2),
                                   Triples |-> Cardinality(g1)])
    /\ idx' = idx + 1
    /\ pc' = AfterEntity(idx, Len(items_to_check), IsoEqual(g1, g2))
    /\ UNCHANGED <<variant, excluded_uris, mode, sample_size, st_items, gdb_items, shared,
                   only_st, only_gdb, finding, items_to_check, g1, g2, status,
                   report, outcome, failed, calls, verdict, shownDiff>>

\* status.update(label="... Complete", state="complete"); the table, the
\* CSV and, on the validator page, the two sample graphs.
Report ==
    /\ pc = "report"
    /\ status' = [label |-> "complete", state |-> "complete", at |-> 0]
    /\ report' = [shown |-> TRUE, table |-> results,
                  st_nt |-> all_st_graph, gdb_nt |-> all_gdb_graph]
    /\ outcome' = "complete"
    /\ pc' = "done"
    /\ UNCHANGED <<variant, excluded_uris, mode, sample_size, st_items, gdb_items, shared,
                   only_st, only_gdb, finding, items_to_check, idx, g1, g2,
                   results, all_st_graph, all_gdb_graph, failed, calls, verdict,
                   shownDiff>>

\* g1 = fetch_full_graph(st_endpoint, st_graph_iri, excluded_uris)
FullFetchSt ==
    /\ pc = "full_fetch_st"
    /\ \E src \in StFullGraphs, esc \in BOOLEAN :
          /\ g1' = FetchedGraph(variant, Retained(src, excluded_uris), esc)
          /\ calls' = Append(calls, Request("fetch_full", "st", 0, excluded_uris,
                                            src, g1'))
    /\ pc' = "full_fetch_gdb"
    /\ UNCHANGED <<variant, excluded_uris, mode, sample_size, st_items, gdb_items, shared,
                   only_st, only_gdb, finding, items_to_check, idx, g2, results,
                   all_st_graph, all_gdb_graph, status, report, outcome, failed,
                   verdict, shownDiff>>

FullFetchStFails ==
    /\ pc = "full_fetch_st"
    /\ calls' = Append(calls, Request("fetch_full", "st", 0, excluded_uris, {}, {}))
    /\ Raise("full_fetch_st", status)
    /\ UNCHANGED <<variant, excluded_uris, mode, sample_size, st_items, gdb_items, shared,
                   only_st, only_gdb, finding, items_to_check, idx, g1, g2,
                   results, all_st_graph, all_gdb_graph, report, verdict,
                   shownDiff>>

\* g2 = fetch_full_graph(gdb_endpoint, gdb_graph_iri, excluded_uris)
FullFetchGdb ==
    /\ pc = "full_fetch_gdb"
    /\ \E src \in GdbFullGraphs, esc \in BOOLEAN :
          /\ g2' = FetchedGraph(variant, Retained(src, excluded_uris), esc)
          /\ calls' = Append(calls, Request("fetch_full", "gdb", 0, excluded_uris,
                                            src, g2'))
    /\ pc' = "full_compare"
    /\ UNCHANGED <<variant, excluded_uris, mode, sample_size, st_items, gdb_items, shared,
                   only_st, only_gdb, finding, items_to_check, idx, g1, results,
                   all_st_graph, all_gdb_graph, status, report, outcome, failed,
                   verdict, shownDiff>>

FullFetchGdbFails ==
    /\ pc = "full_fetch_gdb"
    /\ calls' = Append(calls, Request("fetch_full", "gdb", 0, excluded_uris, {}, {}))
    /\ Raise("full_fetch_gdb", status)
    /\ UNCHANGED <<variant, excluded_uris, mode, sample_size, st_items, gdb_items, shared,
                   only_st, only_gdb, finding, items_to_check, idx, g1, g2,
                   results, all_st_graph, all_gdb_graph, report, verdict,
                   shownDiff>>

\* if to_isomorphic(g1) == to_isomorphic(g2): "Graphs are Identical"
\* else: "Mismatch Found"; _, only_st, only_gdb = graph_diff(g1, g2); two tabs
FullCompare ==
    /\ pc = "full_compare"
    /\ verdict' = IF IsoEqual(g1, g2) THEN "identical" ELSE "mismatch"
    /\ shownDiff' = IF IsoEqual(g1, g2) THEN NoShownDiff
                    ELSE [shown |-> TRUE,
                          only_st |-> GraphDiff(g1, g2).in_first,
                          only_gdb |-> GraphDiff(g1, g2).in_second]
    /\ outcome' = "complete"
    /\ pc' = "done"
    /\ UNCHANGED <<variant, excluded_uris, mode, sample_size, st_items, gdb_items, shared,
                   only_st, only_gdb, finding, items_to_check, idx, g1, g2,
                   results, all_st_graph, all_gdb_graph, status, report, failed,
                   calls>>

RunNext ==
    \/ \E m \in Modes : Click(m)
    \/ DiscoverSt \/ DiscoverStFails
    \/ DiscoverGdb \/ DiscoverGdbFails
    \/ ComparePopulations
    \/ Sample
    \/ FetchSt \/ FetchStFails
    \/ FetchGdb \/ FetchGdbFails
    \/ CompareEntity
    \/ Report
    \/ FullFetchSt \/ FullFetchStFails
    \/ FullFetchGdb \/ FullFetchGdbFails
    \/ FullCompare

\* =================================================== the literal pipelines
\* src/pages/validator.py, fetch_*: parse the answer, then normalise.
FetchParseThenNormalize(lex, tag, escapes) ==
    NormalizeGraphLiterals({<<EntityA, PredP, ParseLiteral(Serialize(lex, escapes), tag)>>})

\* compare_app.py fetch_clean_graph (and src/app.py, compare.py): normalise
\* the answer as text, then parse.
FetchNormalizeThenParse(lex, tag, escapes) ==
    {<<EntityA, PredP, ParseLiteral(NFCText(Serialize(lex, escapes)), tag)>>}

\* URIRef(value): an IRI is the string between the angle brackets.
IRIOf(s) == [kind |-> "iri", id |-> 0, lex |-> s, lang |-> NoLang, dt |-> NoDatatype]

\* g.parse(...) on an IRI: the escapes are resolved, nothing else changes.
ParseIri(w) == IRIOf([k \in 1..Len(w) |-> w[k].cp])

\* src/pages/validator.py, fetch_*, for a triple <i> <p> <i>.
FetchIriParseThenNormalize(lex, escapes) ==
    NormalizeGraphLiterals({<<ParseIri(Serialize(lex, escapes)), PredP,
                              ParseIri(Serialize(lex, escapes))>>})

\* src/app.py fetch_* (and compare.py, compare_app.py), for a triple
\* <i> <p> <i>: the whole answer is normalised as text, IRIs included.
FetchIriNormalizeThenParse(lex, escapes) ==
    {<<ParseIri(NFCText(Serialize(lex, escapes))), PredP,
       ParseIri(NFCText(Serialize(lex, escapes)))>>}

StringsUpTo(n) == UNION {[1..k -> CodePoints] : k \in 0..n}
PlainTag == [lang |-> NoLang, dt |-> NoDatatype]
Tags == {PlainTag, [lang |-> "en", dt |-> NoDatatype], [lang |-> NoLang, dt |-> "xsd:string"]}
NoLiteral == Literal(<<>>, NoLang, NoDatatype)
TheObject(g) == CHOOSE o \in {Obj(t) : t \in g} : TRUE
TheSubject(g) == CHOOSE x \in {Subj(t) : t \in g} : TRUE

LitInit ==
    /\ lex1 \in StringsUpTo(MaxLen)
    /\ lex2 \in StringsUpTo(MaxLen)
    /\ tag1 \in Tags
    /\ tag2 \in Tags
    /\ esc1 \in BOOLEAN
    /\ esc2 \in BOOLEAN
    /\ lpage = "none"
    /\ lpc = "stored"
    /\ lg1 = {}
    /\ lg2 = {}
    /\ out1 = NoLiteral
    /\ out2 = NoLiteral
    /\ lmatch = FALSE

LitAtRest ==
    /\ lex1 = <<>>
    /\ lex2 = <<>>
    /\ tag1 = PlainTag
    /\ tag2 = PlainTag
    /\ esc1 = FALSE
    /\ esc2 = FALSE
    /\ lpage = "none"
    /\ lpc = "unused"
    /\ lg1 = {}
    /\ lg2 = {}
    /\ out1 = NoLiteral
    /\ out2 = NoLiteral
    /\ lmatch = FALSE

\* A request of a run on one triple is answered and the graph is built, or
\* it raises (raise_for_status, a timeout) and the run ends in its except
\* clause; once both graphs are built they are compared.
LFirstAnswered(page, h, term) ==
    /\ lpc = "stored"
    /\ lpage' = page
    /\ lg1' = h
    /\ out1' = term
    /\ lpc' = "fetched_st"
    /\ UNCHANGED <<lex1, lex2, tag1, tag2, esc1, esc2, lg2, out2, lmatch,
                   gvars, rvars, tvars, nvars>>

\* The first request raises: except Exception as e.
LFetchStFails ==
    /\ lpc = "stored"
    /\ \E page \in {"validator", "compare_app", "validator_iri", "app_iri"} :
          /\ page \in {"validator_iri", "app_iri"} => (tag1 = PlainTag /\ tag2 = PlainTag)
          /\ lpage' = page
    /\ lpc' = "error"
    /\ UNCHANGED <<lex1, lex2, tag1, tag2, esc1, esc2, lg1, lg2, out1, out2, lmatch,
                   gvars, rvars, tvars, nvars>>

LSecondAnswered(page, h, term) ==
    /\ lpc = "fetched_st"
    /\ lpage = page
    /\ lg2' = h
    /\ out2' = term
    /\ lpc' = "fetched_gdb"
    /\ UNCHANGED <<lex1, lex2, tag1, tag2, esc1, esc2, lpage, lg1, out1, lmatch,
                   gvars, rvars, tvars, nvars>>

\* The second request raises: the first graph is built, the second is not,
\* and nothing is compared.
LFetchGdbFails ==
    /\ lpc = "fetched_st"
    /\ lpc' = "error"
    /\ UNCHANGED <<lex1, lex2, tag1, tag2, esc1, esc2, lpage, lg1, lg2, out1, out2,
                   lmatch, gvars, rvars, tvars, nvars>>

LCompared(page) ==
    /\ lpc = "fetched_gdb"
    /\ lpage = page
    /\ lmatch' = IsoEqual(lg1, lg2)
    /\ lpc' = page
    /\ UNCHANGED <<lex1, lex2, tag1, tag2, esc1, esc2, lpage, lg1, lg2, out1, out2,
                   gvars, rvars, tvars, nvars>>

\* g1 = fetch_func(st_endpoint, st_graph_iri, iri) on the validator page
LValidatorFetchSt ==
    /\ LFirstAnswered("validator", FetchParseThenNormalize(lex1, tag1, esc1), TheObject(FetchParseThenNormalize(lex1, tag1, esc1)))

\* g2 = fetch_func(gdb_endpoint, gdb_graph_iri, iri)
LValidatorFetchGdb ==
    /\ LSecondAnswered("validator", FetchParseThenNormalize(lex2, tag2, esc2), TheObject(FetchParseThenNormalize(lex2, tag2, esc2)))

\* match = to_isomorphic(g1) == to_isomorphic(g2)
LValidatorCompare ==
    /\ LCompared("validator")

\* g1 = fetch_clean_graph(st_endpoint, st_graph_iri, excluded_uris) in compare_app.py
LCompareAppFetchSt ==
    /\ LFirstAnswered("compare_app", FetchNormalizeThenParse(lex1, tag1, esc1), TheObject(FetchNormalizeThenParse(lex1, tag1, esc1)))

\* g2 = fetch_clean_graph(gdb_endpoint, gdb_graph_iri, excluded_uris)
LCompareAppFetchGdb ==
    /\ LSecondAnswered("compare_app", FetchNormalizeThenParse(lex2, tag2, esc2), TheObject(FetchNormalizeThenParse(lex2, tag2, esc2)))

\* iso1 = to_isomorphic(g1); iso2 = to_isomorphic(g2); if iso1 == iso2
LCompareAppCompare ==
    /\ LCompared("compare_app")

\* g1 = fetch_full_graph(st_endpoint, st_graph_iri, excluded_uris) on the validator
\* page, for a triple <i> <p> <i>, the characters of i being lex1 in Stardog
\* and lex2 in GraphDB
LValidatorIriFetchSt ==
    /\ tag1 = PlainTag /\ tag2 = PlainTag
    /\ LFirstAnswered("validator_iri", FetchIriParseThenNormalize(lex1, esc1), TheSubject(FetchIriParseThenNormalize(lex1, esc1)))

\* g2 = fetch_full_graph(gdb_endpoint, gdb_graph_iri, excluded_uris)
LValidatorIriFetchGdb ==
    /\ LSecondAnswered("validator_iri", FetchIriParseThenNormalize(lex2, esc2), TheSubject(FetchIriParseThenNormalize(lex2, esc2)))

\* if to_isomorphic(g1) == to_isomorphic(g2)
LValidatorIriCompare ==
    /\ LCompared("validator_iri")

\* g1 = fetch_full_graph(st_endpoint, st_graph_iri, excluded_uris) on the main page
\* (src/app.py), for the same triple <i> <p> <i>
LAppIriFetchSt ==
    /\ tag1 = PlainTag /\ tag2 = PlainTag
    /\ LFirstAnswered("app_iri", FetchIriNormalizeThenParse(lex1, esc1), TheSubject(FetchIriNormalizeThenParse(lex1, esc1)))

\* g2 = fetch_full_graph(gdb_endpoint, gdb_graph_iri, excluded_uris)
LAppIriFetchGdb ==
    /\ LSecondAnswered("app_iri", FetchIriNormalizeThenParse(lex2, esc2), TheSubject(FetchIriNormalizeThenParse(lex2, esc2)))

\* if to_isomorphic(g1) == to_isomorphic(g2)
LAppIriCompare ==
    /\ LCompared("app_iri")

LitNext ==
    \/ LFetchStFails
    \/ LFetchGdbFails
    \/ LValidatorFetchSt
    \/ LValidatorFetchGdb
    \/ LValidatorCompare
    \/ LCompareAppFetchSt
    \/ LCompareAppFetchGdb
    \/ LCompareAppCompare
    \/ LValidatorIriFetchSt
    \/ LValidatorIriFetchGdb
    \/ LValidatorIriCompare
    \/ LAppIriFetchSt
    \/ LAppIriFetchGdb
    \/ LAppIriCompare

\* ============================================================ the transpiler
STARDOG_EP == "https://lindas.admin.ch/query"
GRAPHDB_EP == "https://lindas.int.cz-aws.net/query"

\* The configurations the API may hold for the chart: "dataSource" is a
\* dict of its own, "state" and the chart are top-level values.
Urls == {STARDOG_EP, GRAPHDB_EP, "https://int.lindas.admin.ch/query"}
States == {"PUBLISHED", "DRAFT", "CONFIGURING_CHART"}
Charts == {"column", "line", "map"}
ApiConfigs ==
    [dataSource : [type : {"sparql"}, url : Urls], state : States, chart : Charts]

NoValue == [dataSource |-> [type |-> "none", url |-> "none"], state |-> "none",
            chart |-> "none"]

\* The value of the configuration behind reference c: what json.dumps(config)
\* and st.json(config) read.
ConfigValue(tp, ns, c) ==
    [dataSource |-> ns[tp[c].dataSource], state |-> tp[c].state, chart |-> tp[c].chart]

\* A function with one more argument.
Extend(f, x, v) == [y \in DOMAIN f \cup {x} |-> IF y = x THEN v ELSE f[y]]

\* dict.copy(): a new top-level dict whose values are those of the old one;
\* a value that is a dict is the same dict in both.
DictCopy(tp, c, new) == Extend(tp, new, tp[c])

\* generate_html(config, endpoint, unique_id):
\*   config["dataSource"]["url"] = endpoint
\*   config["state"] = "CONFIGURING_CHART"
\*   config_json = json.dumps(config);  the HTML embeds unique_id and config_json
generate_html(tp, ns, config, endpoint, unique_id) ==
    LET ns2 == [ns EXCEPT ![tp[config].dataSource].url = endpoint]
        tp2 == [tp EXCEPT ![config].state = "CONFIGURING_CHART"]
    IN  [tops |-> tp2, nested |-> ns2,
         call |-> [unique_id |-> unique_id, endpoint |-> endpoint,
                   entry |-> ConfigValue(tp, ns, config),
                   html |-> [frame |-> unique_id,
                             configPayload |-> ConfigValue(tp2, ns2, config)]]]

NoObjects == [r \in {} |-> 0]

TranspilerInit ==
    /\ tpc = "idle"
    /\ api_config \in ApiConfigs
    /\ tops = NoObjects
    /\ nested = NoObjects
    /\ base_config = "None"
    /\ gen_calls = <<>>
    /\ raw_shown = NoValue

TranspilerAtRest ==
    /\ tpc = "unused"
    /\ api_config = NoValue
    /\ tops = NoObjects
    /\ nested = NoObjects
    /\ base_config = "None"
    /\ gen_calls = <<>>
    /\ raw_shown = NoValue

\* if st.button("Transpile & Compare"): session_state['run_comparison'] = True
TClick ==
    /\ tpc = "idle"
    /\ tpc' = "run"
    /\ UNCHANGED <<api_config, tops, nested, base_config, gen_calls, raw_shown,
                   gvars, rvars, lvars, nvars>>

\* base_config = extract_config(source_url): the parsed answer of the API.
TExtractConfig ==
    /\ tpc = "run"
    /\ tops' = [r \in {"base"} |-> [dataSource |-> "ds", state |-> api_config.state,
                                     chart |-> api_config.chart]]
    /\ nested' = [r \in {"ds"} |-> api_config.dataSource]
    /\ base_config' = "base"
    /\ tpc' = "fetched"
    /\ UNCHANGED <<api_config, gen_calls, raw_shown, gvars, rvars, lvars, nvars>>

\* extract_config: except Exception: st.error(...); return None.  Nothing is
\* rendered then ("if base_config:").
TExtractConfigFails ==
    /\ tpc = "run"
    /\ base_config' = "None"
    /\ tpc' = "done"
    /\ UNCHANGED <<api_config, tops, nested, gen_calls, raw_shown, gvars, rvars,
                   lvars, nvars>>

\* html_stardog = generate_html(base_config.copy(), STARDOG_EP, "stardog")
TGenerateStardog ==
    /\ tpc = "fetched"
    /\ LET r == generate_html(DictCopy(tops, base_config, "copy1"), nested, "copy1",
                              STARDOG_EP, "stardog")
       IN  /\ tops' = r.tops
           /\ nested' = r.nested
           /\ gen_calls' = Append(gen_calls, r.call)
    /\ tpc' = "stardog_shown"
    /\ UNCHANGED <<api_config, base_config, raw_shown, gvars, rvars, lvars, nvars>>

\* html_graphdb = generate_html(base_config.copy(), GRAPHDB_EP, "graphdb")
TGenerateGraphdb ==
    /\ tpc = "stardog_shown"
    /\ LET r == generate_html(DictCopy(tops, base_config, "copy2"), nested, "copy2",
                              GRAPHDB_EP, "graphdb")
       IN  /\ tops' = r.tops
           /\ nested' = r.nested
           /\ gen_calls' = Append(gen_calls, r.call)
    /\ tpc' = "graphdb_shown"
    /\ UNCHANGED <<api_config, base_config, raw_shown, gvars, rvars, lvars, nvars>>

\* with st.expander("View Raw Configuration"): st.json(base_config)
TShowRaw ==
    /\ tpc = "graphdb_shown"
    /\ raw_shown' = ConfigValue(tops, nested, base_config)
    /\ tpc' = "done"
    /\ UNCHANGED <<api_config, tops, nested, base_config, gen_calls, gvars, rvars,
                   lvars, nvars>>

TranspilerNext ==
    \/ TClick
    \/ TExtractConfig \/ TExtractConfigFails
    \/ TGenerateStardog
    \/ TGenerateGraphdb
    \/ TShowRaw

\* ================================================ normalize_graph_literals
\* The graphs a parse may build: literals precomposed, decomposed and plain,
\* under each tag; an IRI, an IRI written decomposed, a blank node.
NormObjects ==
    {Literal(l, tg.lang, tg.dt) : l \in {<<"eacute">>, <<"e", "acute">>, <<"e">>},
                                  tg \in Tags}
        \cup {ObjC, IRIOf(<<"e", "acute">>), BNode(1)}
NormTriples == {<<x, PredP, o>> : x \in {EntityA, BNode(1)}, o \in NormObjects}
NormInputs == SubsetsUpTo(NormTriples, MaxTriples)

NormInit ==
    /\ npc = "answered"
    /\ parsed \in NormInputs
    /\ ngraph = {}
    /\ todo = {}
    /\ handed = {}

NormAtRest ==
    /\ npc = "unused"
    /\ parsed = {}
    /\ ngraph = {}
    /\ todo = {}
    /\ handed = {}

\* g = Graph(); g.parse(data=response.text, format="nt"); then
\* normalize_graph_literals(g) starts its loop over the triples of g.
NParse ==
    /\ npc = "answered"
    /\ ngraph' = parsed
    /\ todo' = parsed
    /\ npc' = "looping"
    /\ UNCHANGED <<parsed, handed, gvars, rvars, lvars, tvars>>

\* One pass of the loop, for whichever triple the iteration yields next.
NVisit ==
    /\ npc = "looping"
    /\ \E t \in todo :
          /\ ngraph' = NormalizeVisit(ngraph, t)
          /\ todo' = todo \ {t}
    /\ UNCHANGED <<npc, parsed, handed, gvars, rvars, lvars, tvars>>

\* The loop is over: return graph; the caller hands it to to_isomorphic.
NCompare ==
    /\ npc = "looping"
    /\ todo = {}
    /\ handed' = ngraph
    /\ npc' = "compared"
    /\ UNCHANGED <<parsed, ngraph, todo, gvars, rvars, lvars, tvars>>

NormNext == NParse \/ NVisit \/ NCompare

GraphNext == GCompare \/ GDiff \/ GCanonicalize \/ GRecanonicalize

GraphInit == GraphInputs /\ RunAtRest /\ LitAtRest /\ TranspilerAtRest /\ NormAtRest

SpecGraph == GraphInit /\ [][GraphNext]_vars

Init == RunInit /\ GraphAtRest /\ LitAtRest /\ TranspilerAtRest /\ NormAtRest
Next == RunNext /\ UNCHANGED <<gvars, lvars, tvars, nvars>>
Spec == Init /\ [][Next]_vars

\* Every request answers or fails in the end (each carries a timeout), and
\* the page's script runs on: a step that can be taken is taken.
FairSpec == Spec /\ WF_vars(Next)

LitSpecInit == LitInit /\ GraphAtRest /\ RunAtRest /\ TranspilerAtRest /\ NormAtRest
SpecLit == LitSpecInit /\ [][LitNext]_vars

TranspilerSpecInit ==
    TranspilerInit /\ GraphAtRest /\ RunAtRest /\ LitAtRest /\ NormAtRest
SpecTranspiler == TranspilerSpecInit /\ [][TranspilerNext]_vars

NormSpecInit ==
    NormInit /\ GraphAtRest /\ RunAtRest /\ LitAtRest /\ TranspilerAtRest
SpecNorm == NormSpecInit /\ [][NormNext]_vars

\* ------------------------------------------------------- claims on SpecGraph
DiffDone == gpc \in {"diffed", "canonical", "recanonical"}

\* C7: graph_diff(g1, g2) = (shared, only_in_g1, only_in_g2) is a partition
\* under canonical blank-node identity: the canonical triples of g1 are
\* exactly shared plus only_in_g1, each in one of the two, likewise for g2;
\* a triple is shared iff it is a canonical triple of both inputs; the two
\* "only" sets have no triple in common; and the canonical triples of an
\* input are the input up to the names of its blank nodes.
C7_DiffIsPartition ==
    DiffDone =>
        /\ diffOut.in_both \cup diffOut.in_first = Canonical(gA)
        /\ diffOut.in_both \cap diffOut.in_first = {}
        /\ diffOut.in_both \cup diffOut.in_second = Canonical(gB)
        /\ diffOut.in_both \cap diffOut.in_second = {}
        /\ \A t \in Canonical(gA) \cup Canonical(gB) :
              t \in diffOut.in_both <=> (t \in Canonical(gA) /\ t \in Canonical(gB))
        /\ diffOut.in_first \cap diffOut.in_second = {}
        /\ Isomorphic(diffOut.in_both \cup diffOut.in_first, gA)
        /\ Isomorphic(diffOut.in_both \cup diffOut.in_second, gB)

\* Two graphs with blank nodes that share some but not all triples have been
\* diffed.
C7_Witness ==
    /\ gpc = "diffed"
    /\ BNodesOf(gA) # {} /\ BNodesOf(gB) # {}
    /\ diffOut.in_both # {} /\ diffOut.in_first # {} /\ diffOut.in_second # {}

\* The relabellings of the blank nodes of g within the fetch-local labels.
Relabellings(g) ==
    {f \in [BNodesOf(g) -> FetchLabels] : \A x, y \in BNodesOf(g) : f[x] = f[y] => x = y}

\* C8: the equality check is independent of blank-node labels (a graph
\* equals each bijective relabelling of itself, so two fetched graphs that
\* differ only in blank-node labels are reported equal) and sound (two
\* graphs reported equal are isomorphic).
C8_LabelIndependentAndSound ==
    /\ gpc = "compared" => \A f \in Relabellings(gA) : IsoEqual(gA, Relabel(gA, f))
    /\ gpc # "fetched" => (isoEq <=> Isomorphic(gA, gB))

\* Two graphs that differ, and only in their blank-node labels, have been
\* compared and found equal.
C8_Witness ==
    /\ gpc = "compared"
    /\ gA # gB
    /\ Cardinality(BNodesOf(gA)) = 2
    /\ Isomorphic(gA, gB)
    /\ isoEq

\* C10: canonicalisation is idempotent: the canonical graph of a canonical
\* graph has the same triples, blank-node labels included.
C10_CanonicalIdempotent ==
    gpc = "recanonical" => canonTwice = canonA

\* A graph with two blank nodes has been canonicalised twice.
C10_Witness ==
    /\ gpc = "recanonical"
    /\ Cardinality(BNodesOf(gA)) = 2
    /\ canonA # gA

\* ============================================================ claims on Spec
PerEntity == mode \in PerEntityModes
FetchedIris == {calls[k].iri : k \in {j \in 1..Len(calls) : calls[j].op = "fetch"}}
PopulationsCompared ==
    PerEntity /\ pc \notin {"idle", "discover_st", "discover_gdb", "compare_populations"}
               /\ failed \notin {"discover_st", "discover_gdb"}
Sampled == PopulationsCompared /\ pc # "sampling" /\ outcome # "aborted"
Distinct(q) == \A a, b \in 1..Len(q) : q[a] = q[b] => a = b

\* C1: in a per-entity run, when the fetch of one sampled entity fails on
\* either store, the run still ends with a report that has a row for every
\* entity of the sample, the failed entity among them as a failed row.
C1_FailedEntityRecordedRunContinues ==
    (PerEntity /\ pc = "done" /\ failed \in {"fetch_st", "fetch_gdb"}) =>
        /\ report.shown
        /\ Len(report.table) = Len(items_to_check)
        /\ \E k \in 1..Len(report.table) :
              report.table[k].IRI = items_to_check[idx] /\ ~report.table[k].Match

\* C2: a failed population discovery or a failed whole-graph fetch, on either
\* store, ends the run in the error outcome with nothing partial: no
\* per-entity fetch issued, no population finding, no result row, no report,
\* no identical/mismatch verdict and no diff.
C2_DiscoveryOrFullFetchFailureAborts ==
    failed \in {"discover_st", "discover_gdb", "full_fetch_st", "full_fetch_gdb"} =>
        /\ outcome = "error"
        /\ pc = "done"
        /\ FetchedIris = {}
        /\ finding = NoFinding
        /\ items_to_check = <<>>
        /\ results = <<>>
        /\ ~report.shown
        /\ verdict = "none"
        /\ ~shownDiff.shown

\* The second discovery call has failed after the first one answered.
C2_Witness ==
    /\ failed = "discover_gdb"
    /\ st_items # {}
    /\ outcome = "error"

\* The set algebra of step 2, and the deep comparison kept to shared entities.
PopulationsPartitioned ==
    /\ shared = st_items \cap gdb_items
    /\ only_st = st_items \ gdb_items
    /\ only_gdb = gdb_items \ st_items
    /\ shared \cap only_st = {} /\ shared \cap only_gdb = {} /\ only_st \cap only_gdb = {}
    /\ shared \cup only_st \cup only_gdb = st_items \cup gdb_items

\* C3: on every page, for any two discovered populations A (Stardog) and B
\* (GraphDB), population comparison yields shared = A intersect B, only_in_A
\* = A minus B, only_in_B = B minus A, pairwise disjoint with union A union
\* B; every entity of only_in_A and of only_in_B is reported in a population
\* finding of its own; and every entity fetched for deep comparison is in
\* both populations.
C3_EveryUniqueEntityListed ==
    /\ PopulationsCompared =>
          /\ PopulationsPartitioned
          /\ finding.kind \in {"mismatch", "match"}
          /\ finding.kind = "mismatch" <=>
                (st_items \ gdb_items # {} \/ gdb_items \ st_items # {})
          /\ finding.listed_st = st_items \ gdb_items
          /\ finding.listed_gdb = gdb_items \ st_items
    /\ FetchedIris \subseteq st_items \cap gdb_items

\* What holds of the population comparison.  On the validator page: shared =
\* A intersect B, only_in_A = A minus B, only_in_B = B minus A, pairwise
\* disjoint with union A union B; when either "only" set is non-empty the
\* finding is a mismatch warning that counts every entity of both sets and
\* lists at most DisplayCap entities of each (all of a set of at most
\* DisplayCap), every listed entity being one of the set.  On both pages:
\* shared = A intersect B, and every entity fetched for deep comparison is in
\* both populations.
C3_PopulationComparison ==
    /\ (PopulationsCompared /\ variant = "validator") =>
          /\ PopulationsPartitioned
          /\ finding.kind = "mismatch" <=> (only_st # {} \/ only_gdb # {})
          /\ finding.kind = "match" <=> (only_st = {} /\ only_gdb = {})
          /\ finding.kind = "mismatch" =>
                /\ finding.n_st = Cardinality(only_st)
                /\ finding.n_gdb = Cardinality(only_gdb)
                /\ finding.listed_st \subseteq only_st
                /\ finding.listed_gdb \subseteq only_gdb
                /\ Cardinality(finding.listed_st) =
                      IF finding.n_st <= DisplayCap THEN finding.n_st ELSE DisplayCap
                /\ Cardinality(finding.listed_gdb) =
                      IF finding.n_gdb <= DisplayCap THEN finding.n_gdb ELSE DisplayCap
    /\ PopulationsCompared => shared = st_items \cap gdb_items
    /\ FetchedIris \subseteq st_items \cap gdb_items

\* On the validator page each store holds an entity the other lacks, one
\* entity is shared, and the shared one has been fetched.
C3_Witness ==
    /\ variant = "validator"
    /\ st_items = {1, 2} /\ gdb_items = {2, 3}
    /\ finding.kind = "mismatch"
    /\ finding.listed_st = {1} /\ finding.listed_gdb = {3}
    /\ FetchedIris = {2}

\* C4: an empty shared set ends the run in the aborted outcome, which is
\* final (no step follows it): no sampling, no per-entity fetch, no result
\* row and no report; what is displayed then (the status widget in its error
\* state with the abort label, no table) differs from what a completed run
\* displays (the widget in its complete state, the table), whether all rows
\* match or not; and a non-empty shared set never leads to the abort.
C4_EmptySharedAborts ==
    /\ (PopulationsCompared /\ st_items \cap gdb_items = {}) =>
          /\ outcome = "aborted"
          /\ pc = "done"
    /\ outcome = "aborted" =>
          /\ st_items \cap gdb_items = {}
          /\ ~ENABLED Next
          /\ items_to_check = <<>>
          /\ FetchedIris = {}
          /\ results = <<>>
          /\ ~report.shown
          /\ failed = "none"
          /\ status = [label |-> AbortLabel(variant), state |-> "error", at |-> 0]
    /\ (outcome = "complete" /\ PerEntity) =>
          /\ status.state = "complete"
          /\ status.label # AbortLabel(variant)
          /\ report.shown
          /\ st_items \cap gdb_items # {}

\* Both discoveries answered, with no entity in common, and the run stopped.
C4_Witness ==
    /\ outcome = "aborted"
    /\ st_items # {} /\ gdb_items # {}

\* The sampler's contract for a population P and a size m.
SamplerContract(sel, P, m) ==
    IF Cardinality(P) <= m
    THEN sel = SortedSeq(P)
    ELSE Len(sel) = m /\ Distinct(sel) /\ Range(sel) \subseteq P

\* C5 as first stated: the entities handed to deep comparison obey the
\* sampler's contract and are at most m, in every per-entity run.
C5_AtMostSampleSizeAlways ==
    Sampled =>
        /\ SamplerContract(items_to_check, shared, sample_size)
        /\ Len(items_to_check) <= sample_size

\* C5, amended: in the Observations run of the validator page (the one run
\* with use_sampling=True) the selection is all of P in sorted order when
\* |P| <= m and otherwise exactly m distinct members of P, hence at most m
\* entities; in every other per-entity run no sampling takes place and all
\* of P, in sorted order, is handed to deep comparison, however large.
C5_SamplerContract ==
    Sampled =>
        IF UseSampling(variant, mode)
        THEN /\ SamplerContract(items_to_check, shared, sample_size)
             /\ Len(items_to_check) <= sample_size
        ELSE items_to_check = SortedSeq(shared)

\* An Observations run sampled two of three shared entities, not in sorted
\* order.
C5_Witness ==
    /\ Sampled
    /\ UseSampling(variant, mode)
    /\ Cardinality(shared) = 3
    /\ sample_size = 2
    /\ Len(items_to_check) = 2
    /\ items_to_check[1] > items_to_check[2]

IsPrefix(p, q) == Len(p) <= Len(q) /\ \A k \in 1..Len(p) : q[k] = p[k]

ResultsFollowSelection ==
    Sampled =>
        /\ Distinct(items_to_check)
        /\ Len(results) <= Len(items_to_check)
        /\ \A k \in 1..Len(results) : results[k].IRI = items_to_check[k]
        /\ pc = "report" => Len(results) = Len(items_to_check)
        /\ outcome = "complete" =>
              /\ failed = "none"
              /\ report.table = results
              /\ Len(report.table) = Len(items_to_check)

\* C6: in a per-entity run a mismatch never stops the loop: the rows follow
\* the selection one to one and in its order, no entity twice, and a run that
\* completes (no fetch having failed) reports a row for every entity of the
\* selection; a row once appended is never changed or removed, nor is the
\* report once shown.
C6_OneResultPerEntityInOrder ==
    /\ []ResultsFollowSelection
    /\ [][IsPrefix(results, results') /\ (report.shown => report' = report)]_vars

\* A completed run of three entities whose first row is a mismatch and whose
\* last row is a match.
C6_Witness ==
    /\ outcome = "complete"
    /\ Len(report.table) = 3
    /\ ~report.table[1].Match
    /\ report.table[3].Match

\* The requests that fetch triples: one entity's, or the whole graph's.
FetchCalls == {k \in 1..Len(calls) : calls[k].op \in {"fetch", "fetch_full"}}

\* The filter contract of the requests issued so far, on the pages in V.
FilterContract(V) ==
    variant \in V =>
        /\ \A a, b \in FetchCalls :
              calls[a].iri = calls[b].iri => calls[a].filters = calls[b].filters
        /\ \A a \in FetchCalls :
              /\ mode \in {"Full", "Metadata"} =>
                    /\ calls[a].filters = excluded_uris
                    /\ \A t \in calls[a].answer : Pred(t) \notin excluded_uris
                    /\ \A t \in calls[a].source :
                          Pred(t) \notin excluded_uris =>
                              <<Subj(t), Pred(t), NormalizeLiteral(Obj(t))>>
                                  \in calls[a].answer
              /\ mode = "Constraints" => calls[a].filters = {}
              /\ \A u \in calls[a].answer : \E t \in calls[a].source :
                    u = <<Subj(t), Pred(t), NormalizeLiteral(Obj(t))>>

\* C11: the two fetches of a compared unit (the whole graph, or one entity)
\* use the same set of excluded predicates; in whole-graph mode and in
\* Metadata mode that set is the configured one, and the graph fetched holds
\* no triple with an excluded predicate and every other triple of the
\* source; in Constraints mode no predicate is excluded.
C11_FiltersAppliedAlike == FilterContract(Variants)

\* C11 on the validator page alone.
C11_ValidatorPageFilters == FilterContract({"validator"})

\* A Metadata run of the validator page with an excluded predicate: the
\* Stardog source held a triple with that predicate, and the two graphs
\* match once it is left out.
C11_ValidatorPageFilters_Witness ==
    /\ variant = "validator" /\ mode = "Metadata"
    /\ excluded_uris = {PredQ}
    /\ pc = "compare"
    /\ \E a \in FetchCalls :
          calls[a].store = "st" /\ calls[a].answer # calls[a].source
    /\ IsoEqual(g1, g2)

\* The steps of a per-entity run: the orchestrator's state machine, and the
\* exit a raised exception takes from a step that issues a request.
PerEntitySteps ==
    { <<"idle", "discover_st">>,
      <<"discover_st", "discover_gdb">>, <<"discover_st", "done">>,
      <<"discover_gdb", "compare_populations">>, <<"discover_gdb", "done">>,
      <<"compare_populations", "sampling">>, <<"compare_populations", "done">>,
      <<"sampling", "fetch_st">>,
      <<"fetch_st", "fetch_gdb">>, <<"fetch_st", "done">>,
      <<"fetch_gdb", "compare">>, <<"fetch_gdb", "done">>,
      <<"compare", "fetch_st">>, <<"compare", "report">>,
      <<"report", "done">> }

Answered(k, store, iri) ==
    /\ k <= Len(calls)
    /\ calls[k].op = "fetch" /\ calls[k].store = store /\ calls[k].iri = iri
    /\ (k < Len(calls) \/ failed = "none")

RunInOrder ==
    PerEntity =>
        /\ pc = "compare_populations" =>
              /\ calls = <<Call("discover", "st", 0), Call("discover", "gdb", 0)>>
              /\ finding = NoFinding
        /\ pc = "sampling" =>
              /\ finding # NoFinding
              /\ shared = st_items \cap gdb_items
              /\ FetchCalls = {}
              /\ items_to_check = <<>>
        /\ FetchCalls # {} =>
              /\ Sampled
              /\ Range(items_to_check) \subseteq shared
              /\ \A k \in FetchCalls : k > 2
        /\ pc = "compare" =>
              /\ Len(results) = idx - 1
              /\ Len(calls) = 2 + (2 * idx)
        /\ \A k \in 1..Len(results) :
              /\ Answered(1 + (2 * k), "st", items_to_check[k])
              /\ Answered(2 + (2 * k), "gdb", items_to_check[k])
        /\ (pc = "report" \/ report.shown) =>
              /\ Len(results) = Len(items_to_check)
              /\ Len(calls) = 2 + (2 * Len(items_to_check))
        /\ report.shown => pc = "done" /\ report.table = results

\* C12: a per-entity run takes the steps of the orchestrator's state machine
\* and no other (an exception leaves it for the error outcome): both
\* discovery calls have answered before the populations are compared, the
\* populations have been compared before sampling, the selection is fixed
\* before the first per-entity fetch and never changes afterwards, both
\* fetches of an entity have answered before its row is recorded, and the
\* report is shown only after the last entity of the selection was compared.
C12_RunFollowsStateMachine ==
    /\ []RunInOrder
    /\ [][PerEntity' =>
             /\ pc' # pc => <<pc, pc'>> \in PerEntitySteps
             /\ pc \notin {"idle", "discover_st", "discover_gdb",
                            "compare_populations", "sampling"} =>
                   items_to_check' = items_to_check]_vars

\* A run of two entities has shown its report after six requests.
C12_Witness ==
    /\ PerEntity
    /\ report.shown
    /\ Len(items_to_check) = 2
    /\ Len(calls) = 6

\* The graphs the requests to one store answered for the first k entities of
\* the selection.
AnswersFor(store, k) ==
    UNION {calls[a].answer :
              a \in {b \in FetchCalls : /\ calls[b].store = store
                                        /\ \E j \in 1..k : items_to_check[j] = calls[b].iri}}

LastAnswer(store) ==
    LET from == {a \in FetchCalls : calls[a].store = store}
    IN  calls[CHOOSE a \in from : \A b \in from : b <= a].answer

AccumulatorsFollowFetches ==
    (variant = "validator" /\ Sampled) =>
        /\ all_st_graph = AnswersFor("st", Len(results))
        /\ all_gdb_graph = AnswersFor("gdb", Len(results))
        /\ pc \in {"fetch_gdb", "compare"} => g1 = LastAnswer("st")
        /\ pc = "compare" => g2 = LastAnswer("gdb")
        /\ (pc \in {"report", "done"} /\ failed = "none") =>
              g1 = LastAnswer("st") /\ g2 = LastAnswer("gdb")
        /\ report.shown =>
              /\ report.st_nt = AnswersFor("st", Len(items_to_check))
              /\ report.gdb_nt = AnswersFor("gdb", Len(items_to_check))

AccumulationStep ==
    /\ pc \notin {"idle", "sampling"} =>
          /\ all_st_graph \subseteq all_st_graph'
          /\ all_gdb_graph \subseteq all_gdb_graph'
    /\ pc = "compare" => g1' = g1 /\ g2' = g2

\* C16: on the validator page, after k entities have been processed the
\* Stardog accumulator is the union of the graphs fetched from Stardog for
\* those k entities and the GraphDB accumulator the union of the graphs
\* fetched from GraphDB for the same entities, nothing of one store's
\* answers entering the other's accumulator; the exports are the two
\* accumulators after the last entity; an accumulator only grows; and
\* accumulating leaves the graphs of the entity as they were fetched.
C16_AccumulatorsAreUnions ==
    /\ []AccumulatorsFollowFetches
    /\ [][AccumulationStep]_vars

\* Two entities have been processed on the validator page, three triples
\* from Stardog and two from GraphDB.
C16_Witness ==
    /\ variant = "validator"
    /\ Len(results) = 2
    /\ Cardinality(all_st_graph) = 3
    /\ Cardinality(all_gdb_graph) = 2
    /\ all_st_graph \cap all_gdb_graph = {}

NoDifference(g, h) == GraphDiff(g, h).in_first = {} /\ GraphDiff(g, h).in_second = {}

\* C17: the equality verdict and the diff agree.  In a whole-graph run the
\* graphs are announced identical iff their canonical forms are equal iff
\* graph_diff leaves both "only" sets empty, so that a mismatch always
\* displays a difference, the two sets of graph_diff; in a per-entity run a
\* row's Match is true iff the diff of the entity's two graphs is empty on
\* both sides, its Triples is the size of the Stardog graph, and when Match
\* is true that is also the size of the GraphDB graph.
C17_VerdictAgreesWithDiff ==
    /\ (mode = "Full" /\ outcome = "complete") =>
          /\ verdict = "identical" <=> Canonical(g1) = Canonical(g2)
          /\ verdict = "identical" <=> NoDifference(g1, g2)
          /\ verdict = "identical" => ~shownDiff.shown
          /\ verdict = "mismatch" =>
                /\ shownDiff.shown
                /\ shownDiff.only_st = GraphDiff(g1, g2).in_first
                /\ shownDiff.only_gdb = GraphDiff(g1, g2).in_second
                /\ shownDiff.only_st # {} \/ shownDiff.only_gdb # {}
          /\ verdict \in {"identical", "mismatch"}
    /\ PerEntity =>
          \A k \in 1..Len(results) :
              LET a == calls[1 + (2 * k)].answer
                  b == calls[2 + (2 * k)].answer
              IN  /\ results[k].Triples = Cardinality(a)
                  /\ results[k].Match <=> NoDifference(a, b)
                  /\ results[k].Match <=> Canonical(a) = Canonical(b)
                  /\ results[k].Match => results[k].Triples = Cardinality(b)

\* A whole-graph run found two graphs of the same size to differ and
\* displayed triples on both sides.
C17_Witness ==
    /\ mode = "Full"
    /\ verdict = "mismatch"
    /\ Cardinality(g1) = Cardinality(g2)
    /\ shownDiff.only_st # {} /\ shownDiff.only_gdb # {}

SameRequest(a, b) ==
    calls[a].op = calls[b].op /\ calls[a].store = calls[b].store
                              /\ calls[a].iri = calls[b].iri

RunSafety ==
    /\ \A a, b \in 1..Len(calls) : SameRequest(a, b) => a = b
    /\ PerEntity =>
          /\ \A a \in 1..Len(calls) : calls[a].op = "discover" <=> a <= 2
          /\ \A a \in FetchCalls : calls[a].iri \in Range(items_to_check)
          /\ Len(calls) <= 2 + (2 * Len(items_to_check))
    /\ mode = "Full" => Len(calls) <= 2 /\ FetchCalls = 1..Len(calls)
    /\ failed # "none" =>
          /\ pc = "done" /\ outcome = "error"
          /\ calls[Len(calls)].answer = {}
          /\ calls[Len(calls)].op =
                (CASE failed \in {"discover_st", "discover_gdb"} -> "discover"
                   [] failed \in {"fetch_st", "fetch_gdb"} -> "fetch"
                   [] OTHER -> "fetch_full")
    /\ pc = "done" <=> outcome \in {"complete", "aborted", "error"}
    /\ pc = "done" => ~ENABLED Next
    /\ outcome = "complete" =>
          /\ failed = "none"
          /\ PerEntity => report.shown /\ status.state = "complete"
          /\ mode = "Full" => verdict # "none"
    /\ outcome = "aborted" =>
          /\ failed = "none" /\ ~report.shown
          /\ shared = {} /\ status.label = AbortLabel(variant)
    /\ outcome = "error" =>
          /\ failed # "none" /\ ~report.shown /\ verdict = "none"
          /\ status.label # AbortLabel(variant)

\* C18: every run terminates.  Each request answering or failing in the end,
\* a run issues no request twice (the two discovery calls first, then at
\* most one fetch per store for each entity of the selection; two fetches in
\* a whole-graph run), a failed request is the last one of the run, and the
\* run reaches exactly one terminal outcome, after which nothing happens:
\* complete with the report (or the verdict), aborted for an empty shared
\* set, or error.
C18_RunTerminates ==
    /\ []RunSafety
    /\ (pc # "idle") ~> (pc = "done")

\* A run ended in error at the GraphDB fetch of its second entity, after
\* five requests that answered.
C18_Witness ==
    /\ pc = "done"
    /\ failed = "fetch_gdb"
    /\ Len(calls) = 6
    /\ Len(results) = 1

\* =========================================================== claims on SpecLit
SameNormalForm == NFC(lex1) = NFC(lex2) /\ tag1 = tag2

TagsKept ==
    /\ out1.lang = tag1.lang /\ out1.dt = tag1.dt
    /\ out2.lang = tag2.lang /\ out2.dt = tag2.dt

\* C9: in every fetcher, two literals whose lexical forms have the same NFC
\* form and whose language tag and datatype are equal end up as equal
\* literals, so the two one-triple graphs compare as equal; and language tag
\* and datatype are as stored.
C9_NormalizedLiteralsEqual ==
    lpc \in {"validator", "compare_app"} =>
        /\ SameNormalForm => (out1 = out2 /\ lmatch)
        /\ TagsKept

\* C9 for the fetchers of src/pages/validator.py alone (parse, then
\* normalize_graph_literals).
C9_ParseThenNormalize ==
    lpc = "validator" =>
        /\ SameNormalForm => (out1 = out2 /\ lmatch)
        /\ lmatch => SameNormalForm
        /\ out1.lex = NFC(lex1) /\ out2.lex = NFC(lex2)
        /\ TagsKept

\* The same word composed in one store and decomposed in the other, under
\* the same language tag, fetched by the validator page and found equal.
C9_ParseThenNormalize_Witness ==
    /\ lpc = "validator"
    /\ lex1 = <<"eacute">> /\ lex2 = <<"e", "acute">>
    /\ tag1 = tag2 /\ tag1.lang = "en"
    /\ lmatch

\* C13: no fetcher alters an IRI: the IRI in the graph built from an answer
\* is the string the store holds, so two IRIs that differ, be it only in
\* Unicode composition, stay different and the two graphs are found to
\* differ.
C13_IrisNeverNormalized ==
    lpc \in {"validator_iri", "app_iri"} =>
        /\ out1 = IRIOf(lex1) /\ out2 = IRIOf(lex2)
        /\ lex1 # lex2 => ~lmatch

\* C13 for the fetchers of src/pages/validator.py alone.
C13_ValidatorPageKeepsIris ==
    lpc = "validator_iri" =>
        /\ out1 = IRIOf(lex1) /\ out2 = IRIOf(lex2)
        /\ lmatch <=> lex1 = lex2

\* The same IRI composed in one store and decomposed in the other, fetched
\* by the validator page and found to differ.
C13_ValidatorPageKeepsIris_Witness ==
    /\ lpc = "validator_iri"
    /\ lex1 = <<"eacute">> /\ lex2 = <<"e", "acute">>
    /\ ~lmatch

\* ==================================================== claims on SpecTranspiler
BaseValue == ConfigValue(tops, nested, base_config)

\* C14: generate_html being called on base_config.copy(), the two calls
\* leave base_config as it was fetched, its dataSource url and its state in
\* particular; the second call finds the configuration as it was fetched,
\* nothing of what the first call changed; and each HTML embeds the endpoint
\* passed to its own call.
C14_BaseConfigUnchanged ==
    /\ tpc \in {"fetched", "stardog_shown", "graphdb_shown"} => BaseValue = api_config
    /\ tpc = "done" /\ base_config # "None" =>
          /\ BaseValue = api_config
          /\ raw_shown = api_config
    /\ \A k \in 1..Len(gen_calls) :
          /\ gen_calls[k].entry = api_config
          /\ gen_calls[k].html.configPayload.dataSource.url = gen_calls[k].endpoint

\* What holds of the two calls: the top-level values of base_config are as
\* fetched, and each HTML embeds its own frame, the endpoint passed to its
\* call, the chart as fetched and the state CONFIGURING_CHART.
C14_TopLevelKeptHtmlOwnEndpoint ==
    /\ base_config # "None" =>
          /\ BaseValue.state = api_config.state
          /\ BaseValue.chart = api_config.chart
    /\ \A k \in 1..Len(gen_calls) :
          /\ gen_calls[k].entry.state = api_config.state
          /\ gen_calls[k].html.frame = gen_calls[k].unique_id
          /\ gen_calls[k].html.configPayload =
                [dataSource |-> [type |-> api_config.dataSource.type,
                                 url |-> gen_calls[k].endpoint],
                 state |-> "CONFIGURING_CHART",
                 chart |-> api_config.chart]
    /\ Len(gen_calls) >= 1 =>
          gen_calls[1].unique_id = "stardog" /\ gen_calls[1].endpoint = STARDOG_EP
    /\ Len(gen_calls) = 2 =>
          gen_calls[2].unique_id = "graphdb" /\ gen_calls[2].endpoint = GRAPHDB_EP

\* Both columns were generated from a published chart of a third endpoint.
C14_TopLevelKeptHtmlOwnEndpoint_Witness ==
    /\ tpc = "done"
    /\ Len(gen_calls) = 2
    /\ api_config.state = "PUBLISHED"
    /\ api_config.dataSource.url \notin {STARDOG_EP, GRAPHDB_EP}

\* ========================================================= claims on SpecNorm
IsNfcLiteral(o) == IsLiteral(o) /\ NFC(o.lex) = o.lex
NormalizedTriple(t) ==
    IF IsLiteral(Obj(t))
    THEN <<Subj(t), Pred(t), Literal(NFC(Obj(t).lex), Obj(t).lang, Obj(t).dt)>>
    ELSE t

\* C15: normalize_graph_literals returns a graph in which every literal is
\* in NFC; every triple whose object is an IRI, a blank node or a literal
\* already in NFC is still there, and every other triple has given way to
\* the same triple with the literal in NFC, language tag and datatype kept;
\* triples that differed only in the decomposition of the literal have
\* become one, and the number of triples never grows, at no point of the
\* loop; and the graph handed to the canonicaliser is the normalised one.
C15_NormalizeGraphLiterals ==
    /\ Cardinality(ngraph) <= Cardinality(parsed)
    /\ npc = "compared" =>
          /\ \A t \in ngraph : IsLiteral(Obj(t)) => IsNfcLiteral(Obj(t))
          /\ \A t \in parsed : (~IsLiteral(Obj(t)) \/ IsNfcLiteral(Obj(t))) => t \in ngraph
          /\ ngraph = {NormalizedTriple(t) : t \in parsed}
          /\ \A t, u \in parsed :
                NormalizedTriple(t) = NormalizedTriple(u) =>
                    Cardinality({x \in ngraph : x = NormalizedTriple(t)}) = 1
          /\ ngraph = NormalizeGraphLiterals(parsed)
          /\ handed = ngraph

\* On the validator page every graph a run compares, accumulates or exports
\* holds NFC literals only.
C15_RunGraphsNormalized ==
    variant = "validator" =>
        \A t \in g1 \cup g2 \cup all_st_graph \cup all_gdb_graph :
            IsLiteral(Obj(t)) => IsNfcLiteral(Obj(t))

\* Two triples that differ only in the decomposition of the literal have
\* been normalised into one.
C15_Witness ==
    /\ npc = "compared"
    /\ Cardinality(parsed) = 2
    /\ Cardinality(handed) = 1
    /\ \A t \in parsed : Obj(t).lang = "en"

====
